---- MODULE Spec2Model ----
(***************************************************************************)
(* credit-card-scraper.py: CreditCardScraper.extract on PDF text and on a  *)
(* parsed HTML document, the three save operations, and main.              *)
(*                                                                         *)
(* A text (Python str) is a sequence of one-character strings.  A regular  *)
(* expression is a sequence of elements matched by backtracking the way    *)
(* Python's re does: leftmost match, greedy quantifiers, alternatives in   *)
(* order.  A card (Python dict) is a function from keys (texts) to values  *)
(* (texts, or None).                                                       *)
(***************************************************************************)
EXTENDS Integers, Sequences, FiniteSets, TLC

----------------------------------------------------------------------------
(* Characters and str methods *)

LowerLetters ==
  {"a","b","c","d","e","f","g","h","i","j","k","l","m",
   "n","o","p","q","r","s","t","u","v","w","x","y","z"}

UpperLetters ==
  {"A","B","C","D","E","F","G","H","I","J","K","L","M",
   "N","O","P","Q","R","S","T","U","V","W","X","Y","Z"}

Digits == {"0","1","2","3","4","5","6","7","8","9"}

\* \s, and what str.strip() removes
Space == {" ", "\n", "\t", "\r"}

\* \w
Word == LowerLetters \cup UpperLetters \cup Digits \cup {"_"}

WordSpace == Word \cup Space

Alpha == LowerLetters \cup UpperLetters

LowerOf ==
  [c \in UpperLetters |->
     CASE c = "A" -> "a" [] c = "B" -> "b" [] c = "C" -> "c" [] c = "D" -> "d"
       [] c = "E" -> "e" [] c = "F" -> "f" [] c = "G" -> "g" [] c = "H" -> "h"
       [] c = "I" -> "i" [] c = "J" -> "j" [] c = "K" -> "k" [] c = "L" -> "l"
       [] c = "M" -> "m" [] c = "N" -> "n" [] c = "O" -> "o" [] c = "P" -> "p"
       [] c = "Q" -> "q" [] c = "R" -> "r" [] c = "S" -> "s" [] c = "T" -> "t"
       [] c = "U" -> "u" [] c = "V" -> "v" [] c = "W" -> "w" [] c = "X" -> "x"
       [] c = "Y" -> "y" [] c = "Z" -> "z"]

\* str.lower()
Lower(t) == [i \in 1..Len(t) |-> IF t[i] \in UpperLetters THEN LowerOf[t[i]] ELSE t[i]]

RECURSIVE LStrip(_)
LStrip(t) == IF t # <<>> /\ Head(t) \in Space THEN LStrip(Tail(t)) ELSE t

RECURSIVE RStrip(_)
RStrip(t) ==
  IF t # <<>> /\ t[Len(t)] \in Space THEN RStrip(SubSeq(t, 1, Len(t) - 1)) ELSE t

\* str.strip()
Strip(t) == RStrip(LStrip(t))

\* t[p:].startswith(s), p counted from 1
StartsWithAt(t, p, s) ==
  /\ p + Len(s) - 1 <= Len(t)
  /\ \A i \in 1..Len(s) : t[p + i - 1] = s[i]

\* s in t
Contains(t, s) == \E p \in 1..(Len(t) - Len(s) + 1) : StartsWithAt(t, p, s)

\* Python's None: no text equals it, every element of a text being one character
None == <<"None">>

----------------------------------------------------------------------------
(* Regular expressions (module re) *)

Lit(s) == [k |-> "lit", s |-> s]
Cls(set, min, many) == [k |-> "cls", set |-> set, min |-> min, many |-> many]
Star(set) == Cls(set, 0, TRUE)
Plus(set) == Cls(set, 1, TRUE)
Opt(set) == Cls(set, 0, FALSE)
One(set) == Cls(set, 1, FALSE)
Alt(alts) == [k |-> "alt", alts |-> alts]
Open == [k |-> "open"]
Close == [k |-> "close"]

NoMatch == [ok |-> FALSE, s |-> 0, e |-> 0, start |-> 0, end |-> 0]

\* the first position of lo..hi whose character is not in set, hi + 1 when there
\* is none (found by halving, which keeps the evaluation shallow)
RECURSIVE FirstOutside(_, _, _, _)
FirstOutside(set, t, lo, hi) ==
  IF lo > hi THEN hi + 1
  ELSE IF lo = hi THEN (IF t[lo] \in set THEN hi + 1 ELSE lo)
  ELSE LET mid == (lo + hi) \div 2
           left == FirstOutside(set, t, lo, mid)
       IN IF left <= mid THEN left ELSE FirstOutside(set, t, mid + 1, hi)

\* the length of the longest run of characters of set from position p
RunLen(set, t, p) == FirstOutside(set, t, p, Len(t)) - p

RECURSIVE Match(_, _, _, _)
RECURSIVE TryDown(_, _, _, _, _, _)
RECURSIVE TryAlts(_, _, _, _, _, _)

\* re matched at position p of t; g holds the match's start and group 1's span
\* so far.  In the result, s and e are group 1's first position and the position
\* after its last, start and end the same for the whole match.
Match(re, t, p, g) ==
  IF re = <<>> THEN [ok |-> TRUE, s |-> g.s, e |-> g.e, start |-> g.start, end |-> p]
  ELSE LET h == Head(re)
           r == Tail(re)
       IN CASE h.k = "lit" ->
                 IF StartsWithAt(t, p, h.s) THEN Match(r, t, p + Len(h.s), g)
                 ELSE NoMatch
            [] h.k = "open" -> Match(r, t, p, [g EXCEPT !.s = p])
            [] h.k = "close" -> Match(r, t, p, [g EXCEPT !.e = p])
            [] h.k = "cls" ->
                 LET n == IF h.many THEN RunLen(h.set, t, p)
                          ELSE IF p <= Len(t) /\ t[p] \in h.set THEN 1 ELSE 0
                 IN TryDown(r, t, p, h.min, n, g)
            [] h.k = "alt" -> TryAlts(h.alts, 1, r, t, p, g)

\* a greedy quantifier: of the repetitions lo..hi the longest after which the
\* rest r matches, the longer ones tried first
TryDown(r, t, p, lo, hi, g) ==
  IF lo > hi THEN NoMatch
  ELSE IF lo = hi THEN Match(r, t, p + lo, g)
  ELSE LET mid == (lo + hi + 1) \div 2
           longer == TryDown(r, t, p, mid, hi, g)
       IN IF longer.ok THEN longer ELSE TryDown(r, t, p, lo, mid - 1, g)

\* alternatives in the order written
TryAlts(alts, i, r, t, p, g) ==
  IF i > Len(alts) THEN NoMatch
  ELSE LET m == Match(alts[i] \o r, t, p, g)
       IN IF m.ok THEN m ELSE TryAlts(alts, i + 1, r, t, p, g)

\* the match at the first position of lo..hi where re matches
RECURSIVE SearchIn(_, _, _, _)
SearchIn(re, t, lo, hi) ==
  IF lo > hi THEN NoMatch
  ELSE IF lo = hi THEN Match(re, t, lo, [s |-> lo, e |-> lo, start |-> lo])
  ELSE LET mid == (lo + hi) \div 2
           left == SearchIn(re, t, lo, mid)
       IN IF left.ok THEN left ELSE SearchIn(re, t, mid + 1, hi)

\* re.search(re, t[from-1:]): the leftmost match
SearchFrom(re, t, from) == SearchIn(re, t, from, Len(t) + 1)

Search(re, t) == SearchFrom(re, t, 1)

\* match.group(1) of a match m in t
Group1(t, m) == SubSeq(t, m.s, m.e - 1)

\* re.search(re, t, re.IGNORECASE) for an re written in lower case
SearchIgnoreCase(re, t) == Search(re, Lower(t))

----------------------------------------------------------------------------
(* Cards (dicts) *)

K_card_name == <<"c","a","r","d","_","n","a","m","e">>
K_issuing_bank == <<"i","s","s","u","i","n","g","_","b","a","n","k">>
K_joining_fee == <<"j","o","i","n","i","n","g","_","f","e","e">>
K_annual_fee == <<"a","n","n","u","a","l","_","f","e","e">>
K_rewards == <<"r","e","w","a","r","d","s">>
K_cashback == <<"c","a","s","h","b","a","c","k">>
K_offers == <<"o","f","f","e","r","s">>
K_travel_benefits == <<"t","r","a","v","e","l","_","b","e","n","e","f","i","t","s">>
K_insurance == <<"i","n","s","u","r","a","n","c","e">>
K_lounge_access == <<"l","o","u","n","g","e","_","a","c","c","e","s","s">>
K_foreign_transaction_fee == <<"f","o","r","e","i","g","n","_","t","r","a","n","s","a","c","t","i","o","n","_","f","e","e">>

\* card = {}
EmptyCard == [key \in {} |-> None]

\* card[key] = value
SetKey(card, key, value) == (key :> value) @@ card

\* card.get(key), as a condition: the key is there with a value that is neither
\* None nor ''
Truthy(card, key) == key \in DOMAIN card /\ card[key] # None /\ card[key] # <<>>

\* card in cards
InCards(card, cards) == \E i \in 1..Len(cards) : cards[i] = card

----------------------------------------------------------------------------
(* _extract_cards_from_pdf_text *)

\* r'\n\s*\n+'
SectionSeparator == <<Lit(<<"\n">>), Star(Space), Plus({"\n"})>>

\* re.split(r'\n\s*\n+', text[from-1:])
RECURSIVE SplitFrom(_, _)
SplitFrom(text, from) ==
  LET m == SearchFrom(SectionSeparator, text, from)
  IN IF m.ok THEN <<SubSeq(text, from, m.start - 1)>> \o SplitFrom(text, m.end)
     ELSE <<SubSeq(text, from, Len(text))>>

SplitSections(text) == SplitFrom(text, 1)

CardPhrases ==
  {<<"c","r","e","d","i","t"," ","c","a","r","d">>, <<"p","l","a","t","i","n","u","m"," ","c","a","r","d">>, <<"g","o","l","d"," ","c","a","r","d">>, <<"r","e","w","a","r","d","s"," ","c","a","r","d">>, <<"b","u","z","z"," ","c","a","r","d">>,
   <<"t","r","a","v","e","l"," ","c","a","r","d">>}

\* re.search(r'credit card|platinum card|...', section.lower())
IsCardSection(section) == \E phrase \in CardPhrases : Contains(Lower(section), phrase)

\* the first pattern of the list, from the i-th on, that re.search finds in t
RECURSIVE FirstMatch(_, _, _)
FirstMatch(patterns, t, i) ==
  IF i > Len(patterns) THEN NoMatch
  ELSE LET m == Search(patterns[i], t)
       IN IF m.ok THEN m ELSE FirstMatch(patterns, t, i + 1)

CardTypes ==
  << <<Lit(<<"c","r","e","d","i","t">>)>>, <<Lit(<<"p","l","a","t","i","n","u","m">>)>>, <<Lit(<<"g","o","l","d">>)>>, <<Lit(<<"r","e","w","a","r","d","s">>)>>,
     <<Lit(<<"c","a","s","h","b","a","c","k">>)>>, <<Lit(<<"s","i","g","n","a","t","u","r","e">>)>>, <<Lit(<<"i","n","f","i","n","i","t","e">>)>>,
     <<Lit(<<"w","o","r","l","d">>)>>, <<Lit(<<"b","u","z","z">>)>>, <<Lit(<<"t","r","a","v","e","l">>)>> >>

\* card_name_patterns, searched with re.IGNORECASE: written in lower case
CardNamePatterns ==
  << <<Open, Plus(WordSpace), Alt(CardTypes), Plus(Space), Lit(<<"c","a","r","d">>), Close>>,
     <<Open, One(LowerLetters), Plus(LowerLetters \cup Space), Lit(<<"c","a","r","d">>), Close>>,
     <<Open, Plus(WordSpace), Lit(<<"c","a","r","d">>), Close>> >>

BankPatterns ==
  << <<Open, Plus(WordSpace), Lit(<<"B","a","n","k">>), Close>>,
     <<Open, Plus(WordSpace), Lit(<<"F","i","n","a","n","c","i","a","l">>), Close>>,
     <<Open, Plus(WordSpace), Lit(<<"E","x","p","r","e","s","s">>), Close>>,
     <<Open, Lit(<<"A","x","i","s">>), Close>>,
     <<Open, Lit(<<"I","C","I","C","I">>), Close>>,
     <<Open, Lit(<<"H","D","F","C">>), Close>>,
     <<Open, Lit(<<"S","B","I">>), Close>>,
     <<Open, Lit(<<"C","i","t","i">>), Close>>,
     <<Open, Lit(<<"A","m","e","r","i","c","a","n"," ","E","x","p","r","e","s","s">>), Close>>,
     <<Open, Plus(WordSpace), Lit(<<"B","a","n","k","i","n","g">>), Close>> >>

\* [:\s]*
ColonSpace == Star(Space \cup {":"})

\* ([₹$]?[\d,]+(?:\.\d+)?)
FeeValue ==
  <<Open, Opt({"₹", "$"}), Plus(Digits \cup {","}),
    Alt(<< <<Lit(<<".">>), Plus(Digits)>>, <<>> >>), Close>>

JoiningFeePatterns ==
  << <<Lit(<<"j","o","i","n","i","n","g"," ","f","e","e">>), ColonSpace>> \o FeeValue,
     <<Lit(<<"j","o","i","n","i","n","g">>), ColonSpace>> \o FeeValue,
     <<Lit(<<"o","n","e">>), Opt({" ", "-"}), Lit(<<"t","i","m","e"," ","f","e","e">>), ColonSpace>> \o FeeValue,
     <<Lit(<<"e","n","r","o","l","l","m","e","n","t"," ","f","e","e">>), ColonSpace>> \o FeeValue >>

AnnualFeePatterns ==
  << <<Lit(<<"a","n","n","u","a","l"," ","f","e","e">>), ColonSpace>> \o FeeValue,
     <<Lit(<<"a","n","n","u","a","l">>), ColonSpace>> \o FeeValue,
     <<Lit(<<"y","e","a","r","l","y"," ","f","e","e">>), ColonSpace>> \o FeeValue,
     <<Lit(<<"r","e","n","e","w","a","l"," ","f","e","e">>), ColonSpace>> \o FeeValue >>

\* (?:free|nil|waived|zero)
FreeWords == Alt(<< <<Lit(<<"f","r","e","e">>)>>, <<Lit(<<"n","i","l">>)>>, <<Lit(<<"w","a","i","v","e","d">>)>>, <<Lit(<<"z","e","r","o">>)>> >>)

\* rf'{fee_type.replace("_", " ")}[\s:]*(?:free|nil|waived|zero)'
JoiningFeeFree == <<Lit(<<"j","o","i","n","i","n","g"," ","f","e","e">>), ColonSpace, FreeWords>>
AnnualFeeFree == <<Lit(<<"a","n","n","u","a","l"," ","f","e","e">>), ColonSpace, FreeWords>>

\* the fee stored without the "$" put before a bare value
NormalizeFeeBare(fee_value) ==
  IF fee_value = <<"0">> \/ fee_value = <<"$","0">> \/ fee_value = <<"₹","0">> THEN <<"$","0">>
  ELSE fee_value

\* the fee stored for a captured fee_value
NormalizeFee(fee_value) ==
  IF fee_value = <<"0">> \/ fee_value = <<"$","0">> \/ fee_value = <<"₹","0">> THEN <<"$","0">>
  ELSE IF ~(fee_value # <<>> /\ fee_value[1] \in {"$", "₹"}) THEN <<"$">> \o fee_value
  ELSE fee_value

\* the fee_type loop for one fee type: card with the fee set, or card as it was
ExtractFee(card, key, patterns, free, section) ==
  LET low == Lower(section)
      m == FirstMatch(patterns, low, 1)
  IN IF m.ok THEN SetKey(card, key, NormalizeFee(Strip(Group1(low, m))))
     ELSE IF Search(free, low).ok THEN SetKey(card, key, <<"$","0">>)
     ELSE card

\* ([\w\s.,\d%]+)
FreeText == <<Open, Plus(WordSpace \cup {".", ",", "%"}), Close>>

RewardsPatterns ==
  << <<Lit(<<"r","e","w","a","r","d">>), Opt({"s"}), ColonSpace>> \o FreeText,
     <<Lit(<<"r","e","w","a","r","d"," ","p","o","i","n","t","s">>), ColonSpace>> \o FreeText,
     <<Lit(<<"p","o","i","n","t","s">>), ColonSpace>> \o FreeText,
     <<Open, Plus(Digits), One({"x", "X"}), Plus(WordSpace),
       Alt(<< <<Lit(<<"o","n">>)>>, <<Lit(<<"f","o","r">>)>> >>), Plus(WordSpace), Close>>,
     <<Lit(<<"e","a","r","n">>), Plus(WordSpace), Open,
       Alt(<< <<Plus(Digits), Lit(<<"%">>)>>,
              <<Plus(Digits), One({"x", "X"}), Plus(WordSpace)>> >>), Close>>,
     <<Lit(<<"m","i","l","e","s">>), ColonSpace>> \o FreeText >>

CashbackPatterns ==
  << <<Lit(<<"c","a","s","h","b","a","c","k">>), ColonSpace>> \o FreeText,
     <<Lit(<<"c","a","s","h"," ","b","a","c","k">>), ColonSpace>> \o FreeText,
     <<Open, Plus(Digits), Lit(<<"%">>), Star(Space), Lit(<<"c","a","s","h">>), Star(Space),
       Lit(<<"b","a","c","k">>), Close>>,
     <<Open, Lit(<<"c","a","s","h">>), Star(Space), Lit(<<"b","a","c","k">>), Star(Space), Lit(<<"o","f">>),
       Star(Space), Plus(Digits), Lit(<<"%">>), Close>>,
     <<Open, Lit(<<"e","a","r","n">>), Star(Space), Plus(Digits), Lit(<<"%">>), Star(Space),
       Lit(<<"c","a","s","h">>), Close>> >>

OffersPatterns ==
  << <<Lit(<<"o","f","f","e","r">>), Opt({"s"}), ColonSpace>> \o FreeText,
     <<Lit(<<"b","e","n","e","f","i","t">>), Opt({"s"}), ColonSpace>> \o FreeText,
     <<Lit(<<"w","e","l","c","o","m","e">>), Star(Space), Lit(<<"o","f","f","e","r">>), Opt({"s"}), ColonSpace>> \o FreeText,
     <<Lit(<<"b","o","n","u","s">>), ColonSpace>> \o FreeText,
     <<Lit(<<"c","o","m","p","l","i","m","e","n","t","a","r","y">>), ColonSpace>> \o FreeText,
     <<Lit(<<"f","r","e","e">>), ColonSpace, Open, Plus(WordSpace \cup {".", ",", "%"}),
       Lit(<<"a","c","c","e","s","s">>), Close>>,
     <<Open, Plus(Digits \cup {","}), Lit(<<" ","b","o","n","u","s"," ","p","o","i","n","t","s"," ","a","f","t","e","r"," ","s","p","e","n","d","i","n","g">>), Close>>,
     <<Open, Plus(Digits \cup {","}), Lit(<<" ","w","e","l","c","o","m","e"," ","p","o","i","n","t","s">>), Close>>,
     <<Open, Lit(<<"f","r","e","e"," ">>), Plus(WordSpace), Close>> >>

TravelPattern == <<Lit(<<"t","r","a","v","e","l">>), ColonSpace>> \o FreeText
InsurancePattern == <<Lit(<<"i","n","s","u","r","a","n","c","e">>), ColonSpace>> \o FreeText
LoungePattern == <<Lit(<<"l","o","u","n","g","e">>), ColonSpace>> \o FreeText

\* r'foreign\s*transaction\s*fee[:\s]*([₹$]?[\d.,]+%?)'
ForeignFeePattern ==
  <<Lit(<<"f","o","r","e","i","g","n">>), Star(Space), Lit(<<"t","r","a","n","s","a","c","t","i","o","n">>), Star(Space), Lit(<<"f","e","e">>),
    ColonSpace, Open, Opt({"₹", "$"}), Plus(Digits \cup {".", ","}), Opt({"%"}), Close>>

\* re.sub(r'\s+', ' ', t): each run of whitespace becomes one space
CollapseSpaces(t) ==
  LET kept == SelectSeq([i \in 1..Len(t) |-> i],
                        LAMBDA i : ~(t[i] \in Space /\ i > 1 /\ t[i - 1] \in Space))
  IN [j \in 1..Len(kept) |-> IF t[kept[j]] \in Space THEN " " ELSE t[kept[j]]]

\* a text field: the first pattern's group 1, stripped, its whitespace collapsed
ExtractText(card, key, patterns, section) ==
  LET low == Lower(section)
      m == FirstMatch(patterns, low, 1)
  IN IF m.ok THEN SetKey(card, key, CollapseSpaces(Strip(Group1(low, m)))) ELSE card

\* one of the additional specialized extractions: group 1, stripped
ExtractExtra(card, key, pattern, section) ==
  LET low == Lower(section)
      m == Search(pattern, low)
  IN IF m.ok THEN SetKey(card, key, Strip(Group1(low, m))) ELSE card

\* card['card_name'], when a name pattern matches
ExtractCardName(card, section) ==
  LET m == FirstMatch(CardNamePatterns, Lower(section), 1)
  IN IF m.ok THEN SetKey(card, K_card_name, Strip(Group1(section, m))) ELSE card

\* card['issuing_bank'], when a bank pattern matches
ExtractBank(card, section) ==
  LET m == FirstMatch(BankPatterns, section, 1)
  IN IF m.ok THEN SetKey(card, K_issuing_bank, Strip(Group1(section, m))) ELSE card

NullFields == {K_rewards, K_cashback, K_offers, K_joining_fee, K_annual_fee}

\* a card left as it is, its missing fields not set
FillNullsSkipped(card) == card

\* "Set nulls for missing values"
FillNulls(card) == [key \in NullFields \ DOMAIN card |-> None] @@ card

\* the card built from a section that is about a credit card
PdfCard(section) ==
  LET c1 == ExtractCardName(EmptyCard, section)
      c2 == ExtractBank(c1, section)
      c3 == ExtractFee(c2, K_joining_fee, JoiningFeePatterns, JoiningFeeFree, section)
      c4 == ExtractFee(c3, K_annual_fee, AnnualFeePatterns, AnnualFeeFree, section)
      c5 == ExtractText(c4, K_rewards, RewardsPatterns, section)
      c6 == ExtractText(c5, K_cashback, CashbackPatterns, section)
      c7 == ExtractText(c6, K_offers, OffersPatterns, section)
      c8 == ExtractExtra(c7, K_travel_benefits, TravelPattern, section)
      c9 == ExtractExtra(c8, K_insurance, InsurancePattern, section)
      c10 == ExtractExtra(c9, K_lounge_access, LoungePattern, section)
      c11 == ExtractExtra(c10, K_foreign_transaction_fee, ForeignFeePattern, section)
  IN FillNulls(c11)

\* the loop's body with the check "card not in self.cards" of the HTML path
PdfSectionCardsDeduped(cards, section) ==
  IF IsCardSection(section)
  THEN LET card == PdfCard(section)
       IN IF Truthy(card, K_card_name) /\ ~InCards(card, cards)
          THEN Append(cards, card) ELSE cards
  ELSE cards

\* the loop's body without the check that the section is about a credit card
PdfSectionCardsAny(cards, section) ==
  LET card == PdfCard(section)
  IN IF Truthy(card, K_card_name) THEN Append(cards, card) ELSE cards

\* the body of the loop over sections: self.cards after one section
PdfSectionCards(cards, section) ==
  IF IsCardSection(section)
  THEN LET card == PdfCard(section)
       IN IF Truthy(card, K_card_name) THEN Append(cards, card) ELSE cards
  ELSE cards

----------------------------------------------------------------------------
(* The parsed document (BeautifulSoup)                                     *)
(*                                                                         *)
(* A document is the sequence of its nodes in document order.  A node is   *)
(* an element (its tag name and class attribute) or a string (tag "#text", *)
(* its text); parent is the parent's position, 0 for the document itself,  *)
(* which is node 1.                                                        *)

Element(tag, cls, parent) == [tag |-> tag, cls |-> cls, text |-> <<>>, parent |-> parent]
String(text, parent) == [tag |-> "#text", cls |-> <<>>, text |-> text, parent |-> parent]

IsString(doc, n) == doc[n].tag = "#text"

\* the positions of 1..Len(doc) that satisfy Test, in document order
Select(doc, Test(_)) == SelectSeq([i \in 1..Len(doc) |-> i], Test)

RECURSIVE IsDescendant(_, _, _)
IsDescendant(doc, i, n) ==
  /\ doc[i].parent # 0
  /\ (doc[i].parent = n \/ IsDescendant(doc, doc[i].parent, n))

\* n.find_all(tags)
FindAll(doc, n, tags) ==
  Select(doc, LAMBDA i : IsDescendant(doc, i, n) /\ doc[i].tag \in tags)

\* n.contents
Contents(doc, n) == Select(doc, LAMBDA i : doc[i].parent = n)

\* n.string: None unless n has one child that is a string or has a string
RECURSIVE TagString(_, _)
TagString(doc, n) ==
  LET kids == Contents(doc, n)
  IN IF Len(kids) # 1 THEN None
     ELSE IF IsString(doc, kids[1]) THEN doc[kids[1]].text
     ELSE TagString(doc, kids[1])

\* the strings below n, in document order
Strings(doc, n) == Select(doc, LAMBDA i : IsDescendant(doc, i, n) /\ IsString(doc, i))

RECURSIVE Concat(_, _, _)
Concat(doc, nodes, i) ==
  IF i > Len(nodes) THEN <<>> ELSE doc[nodes[i]].text \o Concat(doc, nodes, i + 1)

\* n.text
TextOf(doc, n) == Concat(doc, Strings(doc, n), 1)

RECURSIVE StrippedFrom(_, _, _)
StrippedFrom(doc, nodes, i) ==
  IF i > Len(nodes) THEN <<>>
  ELSE LET s == Strip(doc[nodes[i]].text)
       IN (IF s = <<>> THEN <<>> ELSE <<s>>) \o StrippedFrom(doc, nodes, i + 1)

\* list(n.stripped_strings)
StrippedStrings(doc, n) == StrippedFrom(doc, Strings(doc, n), 1)

\* n.find(tags): the first element below n with one of the tags, 0 for None
Find(doc, n, tags) ==
  LET found == FindAll(doc, n, tags) IN IF found = <<>> THEN 0 ELSE found[1]

\* n.find(text=lambda t: t and word in t.lower()), 0 for None
FindText(doc, n, word) ==
  LET found == Select(doc, LAMBDA i : /\ IsDescendant(doc, i, n)
                                      /\ IsString(doc, i)
                                      /\ Contains(Lower(doc[i].text), word))
  IN IF found = <<>> THEN 0 ELSE found[1]

\* n.find_parent(tags): the nearest ancestor with one of the tags, 0 for None
RECURSIVE FindParent(_, _, _)
FindParent(doc, n, tags) ==
  LET p == doc[n].parent
  IN IF p = 0 THEN 0
     ELSE IF doc[p].tag \in tags THEN p
     ELSE FindParent(doc, p, tags)

\* n.next_sibling, 0 for None
NextSibling(doc, n) ==
  LET later == Select(doc, LAMBDA i : i > n /\ doc[i].parent = doc[n].parent)
  IN IF later = <<>> THEN 0 ELSE later[1]

\* ' '.join(texts)
RECURSIVE JoinSpace(_)
JoinSpace(texts) ==
  IF texts = <<>> THEN <<>>
  ELSE IF Len(texts) = 1 THEN texts[1]
  ELSE texts[1] \o <<" ">> \o JoinSpace(Tail(texts))

Containers == {"div", "section"}
Headings == {"h1", "h2", "h3", "h4", "h5"}

\* _extract_cards_from_html, Method 1
CardContainers(doc) ==
  Select(doc, LAMBDA i : /\ doc[i].tag \in Containers
                         /\ \/ Contains(Lower(doc[i].cls), <<"c","a","r","d">>)
                            \/ Contains(Lower(doc[i].cls), <<"p","r","o","d","u","c","t">>))

\* whether t is a string with one of the words in t.lower()
HasWord(t, words) == t # None /\ t # <<>> /\ \E w \in words : Contains(Lower(t), w)

\* _extract_cards_from_html, Method 2
CardHeadings(doc) ==
  Select(doc, LAMBDA i : /\ doc[i].tag \in Headings
                         /\ HasWord(TagString(doc, i), {<<"c","a","r","d">>, <<"c","r","e","d","i","t">>}))

\* _extract_cards_from_html, Method 3
Tables(doc) == FindAll(doc, 1, {"table"})

\* _extract_cards_from_html, the more general approach
CardInfoBlocks(doc) ==
  Select(doc, LAMBDA i : /\ doc[i].tag \in {"div", "p", "section"}
                         /\ HasWord(TagString(doc, i),
                                    {<<"a","n","n","u","a","l"," ","f","e","e">>, <<"r","e","w","a","r","d">>, <<"c","a","s","h","b","a","c","k">>}))

----------------------------------------------------------------------------
(* _extract_card_from_container *)

\* len(text) < 100
NameMaxLen == 100

RECURSIVE FirstCardText(_, _)
\* the first of the stripped strings with 'card' in it and of reasonable length
FirstCardText(texts, i) ==
  IF i > Len(texts) THEN None
  ELSE IF Contains(Lower(texts[i]), <<"c","a","r","d">>) /\ Len(texts[i]) < NameMaxLen
       THEN Strip(texts[i])
  ELSE FirstCardText(texts, i + 1)

\* card['card_name'] of a container, None when the container has none
ContainerName(doc, container) ==
  LET name_tag == Find(doc, container, Headings \cup {"strong", "b"})
  IN IF name_tag # 0 /\ Strip(TextOf(doc, name_tag)) # <<>>
     THEN Strip(TextOf(doc, name_tag))
     ELSE FirstCardText(StrippedStrings(doc, container), 1)

BankKeywords == <<<<"b","a","n","k">>, <<"i","s","s","u","e","r">>, <<"i","s","s","u","i","n","g"," ","b","a","n","k">>>>

\* the loop over bank_keywords from the i-th on.  next_text.strip() on an element
\* is a call of None (an element's unknown attribute is a search for a child tag
\* of that name): TypeError.
RECURSIVE ContainerBank(_, _, _, _)
ContainerBank(doc, container, card, i) ==
  IF i > Len(BankKeywords) THEN [raised |-> FALSE, card |-> card]
  ELSE LET bank_tag == FindText(doc, container, BankKeywords[i])
           next_text == NextSibling(doc, doc[bank_tag].parent)
       IN IF bank_tag = 0 \/ next_text = 0
          THEN ContainerBank(doc, container, card, i + 1)
          ELSE IF ~IsString(doc, next_text) THEN [raised |-> TRUE, card |-> card]
          ELSE IF doc[next_text].text = <<>>
               THEN ContainerBank(doc, container, card, i + 1)
          ELSE [raised |-> FALSE,
                card |-> SetKey(card, K_issuing_bank, Strip(doc[next_text].text))]

\* ([₹$]?[\d,]+)
HtmlFeeValue == <<Open, Opt({"₹", "$"}), Plus(Digits \cup {","}), Close>>

HtmlJoiningFeePatterns ==
  << <<Lit(<<"j","o","i","n","i","n","g"," ","f","e","e">>), ColonSpace>> \o HtmlFeeValue,
     <<Lit(<<"j","o","i","n","i","n","g">>), ColonSpace>> \o HtmlFeeValue >>

HtmlAnnualFeePatterns ==
  << <<Lit(<<"a","n","n","u","a","l"," ","f","e","e">>), ColonSpace>> \o HtmlFeeValue,
     <<Lit(<<"a","n","n","u","a","l">>), ColonSpace>> \o HtmlFeeValue >>

\* the first of the texts, from the j-th on, that the pattern is found in
RECURSIVE FirstTextMatch(_, _, _)
FirstTextMatch(pattern, texts, j) ==
  IF j > Len(texts) THEN None
  ELSE LET low == Lower(texts[j])
           m == Search(pattern, low)
       IN IF m.ok THEN Strip(Group1(low, m)) ELSE FirstTextMatch(pattern, texts, j + 1)

\* the loop over one fee type's patterns from the i-th on
RECURSIVE ContainerFee(_, _, _, _, _)
ContainerFee(card, key, patterns, texts, i) ==
  IF i > Len(patterns) THEN card
  ELSE LET v == FirstTextMatch(patterns[i], texts, 1)
       IN IF v # None THEN SetKey(card, key, v)
          ELSE ContainerFee(card, key, patterns, texts, i + 1)

\* rewards, cashback, offers: the stripped strings of the parent of the first
\* string with the word in it
ContainerText(doc, container, card, key, word) ==
  LET found == FindText(doc, container, word)
  IN IF found = 0 THEN card
     ELSE SetKey(card, key, Strip(JoinSpace(StrippedStrings(doc, doc[found].parent))))

\* _extract_card_from_container(container): the card, None (none), or TypeError
\* raised
ContainerCard(doc, container) ==
  LET name == ContainerName(doc, container)
      texts == StrippedStrings(doc, container)
      c1 == SetKey(EmptyCard, K_card_name, name)
      bank == ContainerBank(doc, container, c1, 1)
      c3 == ContainerFee(bank.card, K_joining_fee, HtmlJoiningFeePatterns, texts, 1)
      c4 == ContainerFee(c3, K_annual_fee, HtmlAnnualFeePatterns, texts, 1)
      c5 == ContainerText(doc, container, c4, K_rewards, <<"r","e","w","a","r","d">>)
      c6 == ContainerText(doc, container, c5, K_cashback, <<"c","a","s","h","b","a","c","k">>)
      c7 == ContainerText(doc, container, c6, K_offers, <<"o","f","f","e","r">>)
  IN IF name = None THEN [raised |-> FALSE, none |-> TRUE, card |-> EmptyCard]
     ELSE IF bank.raised THEN [raised |-> TRUE, none |-> FALSE, card |-> EmptyCard]
     ELSE [raised |-> FALSE, none |-> FALSE, card |-> c7]

----------------------------------------------------------------------------
(* _extract_cards_from_table *)

DefaultHeaders ==
  <<K_card_name, K_issuing_bank, K_joining_fee, K_annual_fee, K_rewards, K_cashback,
    K_offers>>

\* the key a cell under header is stored at
HeaderKey(header) ==
  IF Contains(header, <<"c","a","r","d">>) \/ Contains(header, <<"n","a","m","e">>) THEN K_card_name
  ELSE IF Contains(header, <<"b","a","n","k">>) \/ Contains(header, <<"i","s","s","u","e","r">>) THEN K_issuing_bank
  ELSE IF Contains(header, <<"j","o","i","n">>) THEN K_joining_fee
  ELSE IF Contains(header, <<"a","n","n","u","a","l">>) THEN K_annual_fee
  ELSE IF Contains(header, <<"r","e","w","a","r","d">>) THEN K_rewards
  ELSE IF Contains(header, <<"c","a","s","h">>) THEN K_cashback
  ELSE IF Contains(header, <<"o","f","f","e","r">>) \/ Contains(header, <<"b","e","n","e","f","i","t">>) THEN K_offers
  ELSE header

\* headers of the table: the cells of its first row, or the assumed ones
TableHeaders(doc, table) ==
  LET header_row == Find(doc, table, {"tr"})
      cells == IF header_row = 0 THEN <<>> ELSE FindAll(doc, header_row, {"th", "td"})
  IN IF cells = <<>> THEN DefaultHeaders
     ELSE [i \in 1..Len(cells) |-> Lower(Strip(TextOf(doc, cells[i])))]

\* the loop over a row's cells from the i-th on
RECURSIVE RowCard(_, _, _, _, _)
RowCard(doc, cells, headers, card, i) ==
  IF i > Len(cells) THEN card
  ELSE IF i <= Len(headers)
       THEN RowCard(doc, cells, headers,
                    SetKey(card, HeaderKey(headers[i]), Strip(TextOf(doc, cells[i]))),
                    i + 1)
  ELSE RowCard(doc, cells, headers, card, i + 1)

\* the loop over rows, without the check of the card name
RECURSIVE RowCardsUnchecked(_, _, _, _)
RowCardsUnchecked(doc, rows, headers, i) ==
  IF i > Len(rows) THEN <<>>
  ELSE LET card == RowCard(doc, FindAll(doc, rows[i], {"td", "th"}), headers, EmptyCard, 1)
       IN (IF card # EmptyCard THEN <<card>> ELSE <<>>)
          \o RowCardsUnchecked(doc, rows, headers, i + 1)

\* the loop over rows from the i-th on
RECURSIVE RowCards(_, _, _, _)
RowCards(doc, rows, headers, i) ==
  IF i > Len(rows) THEN <<>>
  ELSE LET card == RowCard(doc, FindAll(doc, rows[i], {"td", "th"}), headers, EmptyCard, 1)
       IN (IF card # EmptyCard /\ Truthy(card, K_card_name) THEN <<card>> ELSE <<>>)
          \o RowCards(doc, rows, headers, i + 1)

\* table.find_all('tr')[1:]
TableRows(doc, table) ==
  LET rows == FindAll(doc, table, {"tr"}) IN IF rows = <<>> THEN <<>> ELSE Tail(rows)

\* _extract_cards_from_table(table)
TableCards(doc, table) == RowCards(doc, TableRows(doc, table), TableHeaders(doc, table), 1)

----------------------------------------------------------------------------
(* The sources extract is called with, and what they hold *)

\* how many pages a PDF file has at most
MaxPages == 2

\* how many top-level blocks a web page has at most
MaxBlocks == 2

Sources == {<<"h","t","t","p","s",":","/","/","b","a","n","k",".","e","x","a","m","p","l","e","/","c","a","r","d","s">>, <<"c","a","r","d","s",".","P","D","F">>, <<"c","a","r","d","s",".","t","x","t">>}

\* source.startswith(('http://', 'https://'))
IsUrl(source) == StartsWithAt(source, 1, <<"h","t","t","p",":","/","/">>) \/ StartsWithAt(source, 1, <<"h","t","t","p","s",":","/","/">>)

\* source.lower().endswith('.pdf')
IsPdf(source) == Len(source) >= 4 /\ StartsWithAt(Lower(source), Len(source) - 3, <<".","p","d","f">>)

PlatinumBlock == <<"X","Y","Z"," ","P","l","a","t","i","n","u","m"," ","C","r","e","d","i","t"," ","C","a","r","d","\n","A","B","C"," ","B","a","n","k","\n","A","n","n","u","a","l"," ","F","e","e",":"," ","5","0","0","\n","N","o"," ","j","o","i","n","i","n","g"," ","f","e","e",","," ","w","a","i","v","e","d">>
GoldBlock == <<"G","o","l","d"," ","C","a","r","d","\n","A","n","n","u","a","l"," ","f","e","e",":"," ","$","0">>
TravelBlock == <<"A","x","i","s"," ","T","r","a","v","e","l"," ","C","a","r","d"," ","j","o","i","n","i","n","g",":"," ","₹","0","\n","a","n","n","u","a","l"," ","f","e","e"," ","₹","1",",","5","0","0",".","5","0"," ","c","a","s","h","b","a","c","k",":"," ","5","%"," ","o","n"," ","f","u","e","l">>
FeesBlock == <<"A","n","n","u","a","l"," ","F","e","e",":"," ","0","\n","H","D","F","C"," ","B","a","n","k"," ","r","e","w","a","r","d","s",":"," ","2","x"," ","p","o","i","n","t","s">>
DebitBlock == <<"D","e","b","i","t"," ","C","a","r","d"," ","t","e","r","m","s"," ","a","p","p","l","y">>

\* the text of one page, as page.extract_text() or image_to_string gives it
PageTexts ==
  {PlatinumBlock,
   GoldBlock \o <<"\n","\n">> \o GoldBlock,
   FeesBlock \o <<"\n"," ","\n","\n">> \o TravelBlock,
   DebitBlock \o <<"\n","\n">>}

\* the blocks of a web page: the nodes of each, parents counted inside the block,
\* 0 for the document

\* <div class="card"><h3>Gold Card</h3><p>Annual fee: $500</p></div>
GoldDiv ==
  <<Element("div", <<"c","a","r","d">>, 0),
      Element("h3", <<>>, 1), String(<<"G","o","l","d"," ","C","a","r","d">>, 2),
      Element("p", <<>>, 1), String(<<"A","n","n","u","a","l"," ","f","e","e",":"," ","$","5","0","0">>, 4)>>

\* <table><tr><th>Card Name</th><th>Annual Fee</th></tr>
\*   <tr><td>Gold Card</td><td>$500</td></tr><tr><td> </td><td>$10</td></tr></table>
GoldTable ==
  <<Element("table", <<>>, 0),
      Element("tr", <<>>, 1),
        Element("th", <<>>, 2), String(<<"C","a","r","d"," ","N","a","m","e">>, 3),
        Element("th", <<>>, 2), String(<<"A","n","n","u","a","l"," ","F","e","e">>, 5),
      Element("tr", <<>>, 1),
        Element("td", <<>>, 7), String(<<"G","o","l","d"," ","C","a","r","d">>, 8),
        Element("td", <<>>, 7), String(<<"$","5","0","0">>, 10),
      Element("tr", <<>>, 1),
        Element("td", <<>>, 12), String(<<" ">>, 13),
        Element("td", <<>>, 12), String(<<"$","1","0">>, 15)>>

\* <table><tr><th>Card Name</th><th>Bank Name</th><th>Annual Fee</th></tr>
\*   <tr><td>Gold Card</td><td>ABC Bank</td><td>$500</td></tr></table>
BankTable ==
  <<Element("table", <<>>, 0),
      Element("tr", <<>>, 1),
        Element("th", <<>>, 2), String(<<"C","a","r","d"," ","N","a","m","e">>, 3),
        Element("th", <<>>, 2), String(<<"B","a","n","k"," ","N","a","m","e">>, 5),
        Element("th", <<>>, 2), String(<<"A","n","n","u","a","l"," ","F","e","e">>, 7),
      Element("tr", <<>>, 1),
        Element("td", <<>>, 9), String(<<"G","o","l","d"," ","C","a","r","d">>, 10),
        Element("td", <<>>, 9), String(<<"A","B","C"," ","B","a","n","k">>, 12),
        Element("td", <<>>, 9), String(<<"$","5","0","0">>, 14)>>

\* <div class="product-box"><span>Issuing bank</span><b>ABC Bank</b></div>
IssuerDiv ==
  <<Element("div", <<"p","r","o","d","u","c","t","-","b","o","x">>, 0),
      Element("span", <<>>, 1), String(<<"I","s","s","u","i","n","g"," ","b","a","n","k">>, 2),
      Element("b", <<>>, 1), String(<<"A","B","C"," ","B","a","n","k">>, 4)>>

\* <div class="Card"><b>Super Card</b><span>Bank:</span> HDFC <i>joining fee 1,000</i></div>
SuperDiv ==
  <<Element("div", <<"C","a","r","d">>, 0),
      Element("b", <<>>, 1), String(<<"S","u","p","e","r"," ","C","a","r","d">>, 2),
      Element("span", <<>>, 1), String(<<"B","a","n","k",":">>, 4),
      String(<<" ","H","D","F","C"," ">>, 1),
      Element("i", <<>>, 1), String(<<"j","o","i","n","i","n","g"," ","f","e","e"," ","1",",","0","0","0">>, 7)>>

\* <div class="info"><p>Rewards card: 2x points</p></div>
RewardsDiv ==
  <<Element("div", <<"i","n","f","o">>, 0),
      Element("p", <<>>, 1), String(<<"R","e","w","a","r","d","s"," ","c","a","r","d",":"," ","2","x"," ","p","o","i","n","t","s">>, 2)>>

\* <div><h2>Credit cards</h2><section class="card-list"><p>No fee</p></section></div>
HeadingDiv ==
  <<Element("div", <<>>, 0),
      Element("h2", <<>>, 1), String(<<"C","r","e","d","i","t"," ","c","a","r","d","s">>, 2),
      Element("section", <<"c","a","r","d","-","l","i","s","t">>, 1),
        Element("p", <<>>, 4), String(<<"N","o"," ","f","e","e">>, 5)>>

HtmlBlocks == {GoldDiv, GoldTable, BankTable, IssuerDiv, SuperDiv, RewardsDiv, HeadingDiv}

\* the sources of the narrow runs, where the arguments and the saves vary
NarrowPageTexts == {PlatinumBlock, DebitBlock \o <<"\n","\n">>}
NarrowHtmlBlocks == {GoldDiv, GoldTable, IssuerDiv, RewardsDiv}

\* BeautifulSoup(response.text, 'html.parser') of a page with the blocks
RECURSIVE Assemble(_, _, _)
Assemble(blocks, i, doc) ==
  IF i > Len(blocks) THEN doc
  ELSE Assemble(blocks, i + 1,
         doc \o [n \in 1..Len(blocks[i]) |->
                   [blocks[i][n] EXCEPT !.parent = IF @ = 0 THEN 1 ELSE @ + Len(doc)]])

Soup(blocks) == Assemble(blocks, 1, <<Element("[document]", <<>>, 0)>>)

\* the pages joined, each followed by sep
RECURSIVE JoinPages(_, _)
JoinPages(page_texts, sep) ==
  IF page_texts = <<>> THEN <<>>
  ELSE Head(page_texts) \o sep \o JoinPages(Tail(page_texts), sep)

\* len(text.strip()) < 100
MinTextLen == 100

----------------------------------------------------------------------------
(* The scraper object: extract, step by step, and the save operations *)

VARIABLES
  env,          \* which sources there are: "wide" or "narrow"
  pc,           \* where extract is: "idle" outside a call
  source,       \* the source of the call
  result,       \* how the call ended: "none" before it, "returned", or the exception
  npages,       \* the number of pages of the PDF file
  ocr,          \* whether the text is _ocr_pdf's
  text,         \* the text _extract_cards_from_pdf_text is given
  doc,          \* the parsed web page
  todo,         \* the list the current loop goes through: sections, or nodes of doc
  idx,          \* the loop's position in todo
  cards,        \* self.cards
  calls,        \* how many times extract has been called
  events,       \* for each candidate looked at so far: the strategy, the place, the outcome
  files,        \* the output files that exist
  log,          \* the messages logged
  save_raised,  \* whether a save operation raised
  args,         \* main's arguments
  mpc           \* where main is: "none" when the scraper is used without main

vars ==
  <<env, pc, source, result, npages, ocr, text, doc, todo, idx, cards, calls, events, files,
    log, save_raised, args, mpc>>

scraper_vars ==
  <<env, pc, source, result, npages, ocr, text, doc, todo, idx, cards, calls, events>>

main_vars == <<env, args, mpc>>

\* what the sources hold
PagesRead == IF env = "wide" THEN PageTexts ELSE NarrowPageTexts
BlocksServed == IF env = "wide" THEN HtmlBlocks ELSE NarrowHtmlBlocks

\* how long the sources are at most: one page, one block where extract is called
\* again and again
MostPages == IF env = "short" THEN 1 ELSE MaxPages
MostBlocks == IF env = "short" THEN 1 ELSE MaxBlocks

Event(by, at, what) == [by |-> by, at |-> at, what |-> what]

\* extract(src) without "self.cards = []"
extractKeeping(src) ==
  /\ pc = "idle"
  /\ source' = src
  /\ calls' = calls + 1
  /\ events' = <<>>
  /\ npages' = 0 /\ ocr' = FALSE /\ text' = <<>> /\ doc' = <<>> /\ todo' = <<>> /\ idx' = 1
  /\ IF IsUrl(src)
     THEN /\ pc' = "fetch"
          /\ log' = log \cup {"info: Processing URL"}
          /\ result' = "none"
     ELSE IF IsPdf(src)
     THEN /\ pc' = "read_pdf"
          /\ log' = log \cup {"info: Processing PDF"}
          /\ result' = "none"
     ELSE /\ pc' = "idle"
          /\ log' = log \cup {"error: Unsupported source format"}
          /\ result' = "ValueError"
  /\ UNCHANGED <<cards, files, save_raised>>

\* extract(src) up to the call of _extract_from_url or _extract_from_pdf
extract(src) ==
  /\ pc = "idle"
  /\ source' = src
  /\ calls' = calls + 1
  /\ cards' = <<>>
  /\ events' = <<>>
  /\ npages' = 0 /\ ocr' = FALSE /\ text' = <<>> /\ doc' = <<>> /\ todo' = <<>> /\ idx' = 1
  /\ IF IsUrl(src)
     THEN /\ pc' = "fetch"
          /\ log' = log \cup {"info: Processing URL"}
          /\ result' = "none"
     ELSE IF IsPdf(src)
     THEN /\ pc' = "read_pdf"
          /\ log' = log \cup {"info: Processing PDF"}
          /\ result' = "none"
     ELSE /\ pc' = "idle"
          /\ log' = log \cup {"error: Unsupported source format"}
          /\ result' = "ValueError"
  /\ UNCHANGED <<files, save_raised>>

\* an exception leaves extract
Raise(exception) ==
  /\ pc' = "idle"
  /\ result' = exception

\* return self.cards
Return ==
  /\ pc' = "idle"
  /\ result' = "returned"

\* _extract_from_url up to the loops of _extract_cards_from_html
Fetch ==
  /\ pc = "fetch"
  /\ \/ /\ Raise("RequestException")
        /\ log' = log \cup {"error: Error fetching URL"}
        /\ UNCHANGED <<doc, todo, idx>>
     \/ \E n \in 0..MostBlocks : \E blocks \in [1..n -> BlocksServed] :
          /\ doc' = Soup(blocks)
          /\ todo' = CardContainers(doc')
          /\ idx' = 1
          /\ pc' = "containers"
          /\ UNCHANGED <<result, log>>
  /\ UNCHANGED <<source, npages, ocr, text, cards, calls, events, files, save_raised,
                 main_vars>>

\* the cards appended without the check "card not in self.cards"
RECURSIVE AppendAll(_, _, _, _, _, _)
AppendAll(cs, ev, new_cards, i, by, at) ==
  IF i > Len(new_cards) THEN [cards |-> cs, events |-> ev]
  ELSE AppendAll(Append(cs, new_cards[i]), Append(ev, Event(by, at, "appended")),
                 new_cards, i + 1, by, at)

\* self.cards and the events after the cards of new_cards, from the i-th on, are
\* appended unless already there
RECURSIVE AppendNew(_, _, _, _, _, _)
AppendNew(cs, ev, new_cards, i, by, at) ==
  IF i > Len(new_cards) THEN [cards |-> cs, events |-> ev]
  ELSE IF InCards(new_cards[i], cs)
       THEN AppendNew(cs, Append(ev, Event(by, at, "duplicate")), new_cards, i + 1, by, at)
  ELSE AppendNew(Append(cs, new_cards[i]), Append(ev, Event(by, at, "appended")),
                 new_cards, i + 1, by, at)

\* card = self._extract_card_from_container(container); if card and card not in
\* self.cards: self.cards.append(card)
Collect(by, container) ==
  LET r == ContainerCard(doc, container)
      new == AppendNew(cards, events, <<r.card>>, 1, by, container)
  IN IF r.raised
     THEN /\ Raise("TypeError")
          /\ events' = Append(events, Event(by, container, "raised"))
          /\ UNCHANGED <<cards, idx>>
     ELSE /\ idx' = idx + 1
          /\ UNCHANGED <<pc, result>>
          /\ IF r.none
             THEN /\ events' = Append(events, Event(by, container, "no_name"))
                  /\ cards' = cards
             ELSE /\ events' = new.events
                  /\ cards' = new.cards

html_frame == <<source, npages, ocr, text, doc, calls, files, log, save_raised, main_vars>>

\* one turn of "for container in card_containers"
ContainerStep ==
  /\ pc = "containers"
  /\ idx <= Len(todo)
  /\ Collect("container", todo[idx])
  /\ UNCHANGED <<todo, html_frame>>

ContainersDone ==
  /\ pc = "containers"
  /\ idx > Len(todo)
  /\ pc' = "headings"
  /\ todo' = CardHeadings(doc)
  /\ idx' = 1
  /\ UNCHANGED <<result, cards, events, html_frame>>

\* one turn of "for heading in card_headings"
HeadingStep ==
  /\ pc = "headings"
  /\ idx <= Len(todo)
  /\ LET parent == FindParent(doc, todo[idx], Containers)
     IN IF parent = 0
        THEN /\ idx' = idx + 1
             /\ events' = Append(events, Event("heading", todo[idx], "no_parent"))
             /\ UNCHANGED <<pc, result, cards>>
        ELSE Collect("heading", parent)
  /\ UNCHANGED <<todo, html_frame>>

HeadingsDone ==
  /\ pc = "headings"
  /\ idx > Len(todo)
  /\ pc' = "tables"
  /\ todo' = Tables(doc)
  /\ idx' = 1
  /\ UNCHANGED <<result, cards, events, html_frame>>

\* one turn of "for table in tables"
TableStep ==
  /\ pc = "tables"
  /\ idx <= Len(todo)
  /\ LET new == AppendNew(cards, events, TableCards(doc, todo[idx]), 1, "table", todo[idx])
     IN /\ cards' = new.cards
        /\ events' = new.events
  /\ idx' = idx + 1
  /\ UNCHANGED <<pc, result, todo, html_frame>>

\* "if not self.cards": the more general approach, or the return
TablesDone ==
  /\ pc = "tables"
  /\ idx > Len(todo)
  /\ IF cards = <<>>
     THEN /\ pc' = "fallback"
          /\ todo' = CardInfoBlocks(doc)
          /\ idx' = 1
          /\ result' = result
     ELSE /\ Return
          /\ UNCHANGED <<todo, idx>>
  /\ UNCHANGED <<cards, events, html_frame>>

\* one turn of "for block in card_info_blocks"
FallbackStep ==
  /\ pc = "fallback"
  /\ idx <= Len(todo)
  /\ LET parent == FindParent(doc, todo[idx], Containers)
     IN IF parent = 0
        THEN /\ idx' = idx + 1
             /\ events' = Append(events, Event("fallback", todo[idx], "no_parent"))
             /\ UNCHANGED <<pc, result, cards>>
        ELSE Collect("fallback", parent)
  /\ UNCHANGED <<todo, html_frame>>

FallbackDone ==
  /\ pc = "fallback"
  /\ idx > Len(todo)
  /\ Return
  /\ UNCHANGED <<todo, idx, cards, events, html_frame>>

pdf_frame == <<source, doc, cards, calls, events, files, save_raised, main_vars>>

\* _extract_from_pdf with the text of the pages always taken as it is
ReadPdfDirect ==
  /\ pc = "read_pdf"
  /\ \E n \in 0..MostPages : \E page_texts \in [1..n -> PagesRead] :
       /\ npages' = n
       /\ ocr' = FALSE
       /\ text' = JoinPages(page_texts, <<"\n">>)
       /\ todo' = SplitSections(text')
       /\ idx' = 1
       /\ pc' = "sections"
       /\ UNCHANGED <<result, log>>
  /\ UNCHANGED pdf_frame

\* _extract_from_pdf up to the check of the text's length
ReadPdf ==
  /\ pc = "read_pdf"
  /\ \/ /\ Raise("PdfError")
        /\ log' = log \cup {"error: Error processing PDF"}
        /\ UNCHANGED <<npages, ocr, text, todo, idx>>
     \/ \E n \in 0..MostPages : \E page_texts \in [1..n -> PagesRead] :
          LET t == JoinPages(page_texts, <<"\n">>)
          IN /\ npages' = n
             /\ result' = result
             /\ IF Len(Strip(t)) < MinTextLen
                THEN /\ pc' = "ocr"
                     /\ log' = log \cup {"info: PDF appears to be image-based"}
                     /\ text' = t
                     /\ UNCHANGED <<ocr, todo, idx>>
                ELSE /\ pc' = "sections"
                     /\ ocr' = FALSE
                     /\ text' = t
                     /\ todo' = SplitSections(t)
                     /\ idx' = 1
                     /\ log' = log
  /\ UNCHANGED pdf_frame

\* _ocr_pdf, and the split of its text
OcrPdf ==
  /\ pc = "ocr"
  /\ \/ /\ Raise("PdfError")
        /\ log' = log \cup {"error: Error during OCR", "error: Error processing PDF"}
        /\ UNCHANGED <<ocr, text, todo, idx>>
     \/ \E page_texts \in [1..npages -> PagesRead] :
          /\ ocr' = TRUE
          /\ text' = JoinPages(page_texts, <<"\n","\n">>)
          /\ todo' = SplitSections(text')
          /\ idx' = 1
          /\ pc' = "sections"
          /\ UNCHANGED <<result, log>>
  /\ UNCHANGED <<npages, pdf_frame>>

\* one turn of "for section in sections"
SectionStep ==
  /\ pc = "sections"
  /\ idx <= Len(todo)
  /\ cards' = PdfSectionCards(cards, todo[idx])
  /\ events' = Append(events,
                  Event("pdf", idx, IF Len(cards') > Len(cards) THEN "appended"
                                    ELSE IF IsCardSection(todo[idx]) THEN "no_name"
                                    ELSE "not_card"))
  /\ idx' = idx + 1
  /\ UNCHANGED <<pc, source, result, npages, ocr, text, doc, todo, calls, files, log,
                 save_raised, main_vars>>

SectionsDone ==
  /\ pc = "sections"
  /\ idx > Len(todo)
  /\ Return
  /\ UNCHANGED <<source, npages, ocr, text, doc, todo, idx, cards, calls, events, files,
                 log, save_raised, main_vars>>

\* a write that fails: open() raises and there is no file, or the write raises
\* and the file is there
WriteFails(file) ==
  /\ save_raised' = TRUE
  /\ files' \in {files, files \cup {file}}
  /\ log' = log

Written(file) ==
  /\ files' = files \cup {file}
  /\ log' = log \cup {"info: Saved cards"}
  /\ save_raised' = save_raised

save_to_json == Written("json") \/ WriteFails("json")

save_to_csv ==
  IF cards = <<>>
  THEN /\ log' = log \cup {"warning: No cards to save"}
       /\ UNCHANGED <<files, save_raised>>
  ELSE Written("csv") \/ WriteFails("csv")

save_to_excel ==
  IF cards = <<>>
  THEN /\ log' = log \cup {"warning: No cards to save"}
       /\ UNCHANGED <<files, save_raised>>
  ELSE Written("xlsx") \/ WriteFails("xlsx")

\* the operations as a caller of the scraper object uses them
Extract ==
  /\ mpc = "none"
  /\ result = "none"
  /\ \E src \in Sources : extract(src)
  /\ UNCHANGED main_vars

SaveToJson ==
  /\ mpc = "none" /\ pc = "idle" /\ ~save_raised
  /\ save_to_json
  /\ UNCHANGED <<scraper_vars, main_vars>>

SaveToCsv ==
  /\ mpc = "none" /\ pc = "idle" /\ ~save_raised
  /\ save_to_csv
  /\ UNCHANGED <<scraper_vars, main_vars>>

SaveToExcel ==
  /\ mpc = "none" /\ pc = "idle" /\ ~save_raised
  /\ save_to_excel
  /\ UNCHANGED <<scraper_vars, main_vars>>

NoArgs == [source |-> <<>>, format |-> "none", convert_pdf |-> FALSE]

\* CreditCardScraper(): self.cards = []
InitScraper ==
  /\ pc = "idle"
  /\ source = <<>>
  /\ result = "none"
  /\ npages = 0
  /\ ocr = FALSE
  /\ text = <<>>
  /\ doc = <<>>
  /\ todo = <<>>
  /\ idx = 1
  /\ cards = <<>>
  /\ calls = 0
  /\ events = <<>>
  /\ files = {}
  /\ log = {}
  /\ save_raised = FALSE

Init ==
  /\ env = "wide"
  /\ InitScraper
  /\ args = NoArgs
  /\ mpc = "none"

Steps ==
  \/ Fetch
  \/ ContainerStep
  \/ ContainersDone
  \/ HeadingStep
  \/ HeadingsDone
  \/ TableStep
  \/ TablesDone
  \/ FallbackStep
  \/ FallbackDone
  \/ ReadPdf
  \/ OcrPdf
  \/ SectionStep
  \/ SectionsDone

Next ==
  \/ Extract
  \/ Steps

Spec == Init /\ [][Next]_vars

----------------------------------------------------------------------------
(* The scraper object with its save operations (narrow sources) *)

InitApi ==
  /\ env = "narrow"
  /\ InitScraper
  /\ args = NoArgs
  /\ mpc = "none"

NextApi ==
  \/ Extract
  \/ Steps
  \/ SaveToJson
  \/ SaveToCsv
  \/ SaveToExcel

SpecApi == InitApi /\ [][NextApi]_vars

----------------------------------------------------------------------------
(* main (narrow sources) *)

Formats == {"json", "csv", "excel", "all"}

\* the output artifacts: <output>.json, <output>.csv, <output>.xlsx
Outputs == {"json", "csv", "xlsx"}

\* str.replace(old, new)
RECURSIVE Replace(_, _, _)
Replace(t, old, new) ==
  IF t = <<>> THEN <<>>
  ELSE IF StartsWithAt(t, 1, old)
       THEN new \o Replace(SubSeq(t, Len(old) + 1, Len(t)), old, new)
  ELSE <<Head(t)>> \o Replace(Tail(t), old, new)

\* whether main converts the PDF first
Converts == args.convert_pdf /\ IsPdf(args.source)

\* output_pdf: --output-pdf is not given
OutputPdf == Replace(args.source, <<".","p","d","f">>, <<"_","t","e","x","t",".","p","d","f">>)

InitMain ==
  /\ env = "narrow"
  /\ InitScraper
  /\ args \in [source : Sources, format : Formats, convert_pdf : BOOLEAN]
  /\ mpc = "start"

\* scraper = CreditCardScraper(), and the choice of the branch
MainStart ==
  /\ mpc = "start"
  /\ mpc' = IF Converts THEN "convert" ELSE "extract"
  /\ UNCHANGED <<env, args, scraper_vars, files, log, save_raised>>

\* scraper.convert_image_pdf_to_text(args.source, output_pdf)
MainConvert ==
  /\ mpc = "convert"
  /\ \/ /\ log' = log \cup {"error: Error during PDF conversion"}
        /\ mpc' = "handler"
        /\ files' \in {files, files \cup {"pdf"}}
     \/ /\ log' = log \cup {"info: Text-based PDF created"}
        /\ mpc' = "extract"
        /\ files' = files \cup {"pdf"}
  /\ UNCHANGED <<env, args, scraper_vars, save_raised>>

\* cards = scraper.extract(...): the call
MainExtract ==
  /\ mpc = "extract"
  /\ extract(IF Converts THEN OutputPdf ELSE args.source)
  /\ mpc' = "extracting"
  /\ UNCHANGED <<env, args>>

\* cards = scraper.extract(...): the return or the exception, and "if not cards"
MainResume ==
  /\ mpc = "extracting"
  /\ pc = "idle"
  /\ IF result # "returned"
     THEN /\ mpc' = "handler"
          /\ log' = log
     ELSE IF cards = <<>>
     THEN /\ mpc' = "done"
          /\ log' = log \cup {"warning: No credit card information found"}
     ELSE /\ mpc' = "save_json"
          /\ log' = log
  /\ UNCHANGED <<env, args, scraper_vars, files, save_raised>>

\* where main goes after a save operation that was asked for
AfterSave(next) == mpc' = IF save_raised' THEN "handler" ELSE next

MainSaveJson ==
  /\ mpc = "save_json"
  /\ IF args.format \in {"json", "all"}
     THEN save_to_json /\ AfterSave("save_csv")
     ELSE mpc' = "save_csv" /\ UNCHANGED <<files, log, save_raised>>
  /\ UNCHANGED <<env, args, scraper_vars>>

MainSaveCsv ==
  /\ mpc = "save_csv"
  /\ IF args.format \in {"csv", "all"}
     THEN save_to_csv /\ AfterSave("save_excel")
     ELSE mpc' = "save_excel" /\ UNCHANGED <<files, log, save_raised>>
  /\ UNCHANGED <<env, args, scraper_vars>>

MainSaveExcel ==
  /\ mpc = "save_excel"
  /\ IF args.format \in {"excel", "all"}
     THEN save_to_excel /\ AfterSave("success")
     ELSE mpc' = "success" /\ UNCHANGED <<files, log, save_raised>>
  /\ UNCHANGED <<env, args, scraper_vars>>

MainSuccess ==
  /\ mpc = "success"
  /\ mpc' = "done"
  /\ log' = log \cup {"info: Successfully extracted"}
  /\ UNCHANGED <<env, args, scraper_vars, files, save_raised>>

\* a handler that saves what was collected before it logs the error
MainHandlerSaving ==
  /\ mpc = "handler"
  /\ mpc' = "failed"
  /\ log' = log \cup {"error: Error"}
  /\ files' = IF cards = <<>> THEN files ELSE files \cup {"json"}
  /\ UNCHANGED <<env, args, scraper_vars, save_raised>>

\* except Exception as e: logger.error(f"Error: {e}")
MainHandler ==
  /\ mpc = "handler"
  /\ mpc' = "failed"
  /\ log' = log \cup {"error: Error"}
  /\ UNCHANGED <<env, args, scraper_vars, files, save_raised>>

NextMain ==
  \/ MainStart
  \/ MainConvert
  \/ MainExtract
  \/ Steps
  \/ MainResume
  \/ MainSaveJson
  \/ MainSaveCsv
  \/ MainSaveExcel
  \/ MainSuccess
  \/ MainHandler

SpecMain == InitMain /\ [][NextMain]_vars

----------------------------------------------------------------------------
(* The fee values of a section of PDF text *)

\* how many characters a fee value has at most
MaxFeeLen == 3

FeeChars == {"0", "5", ",", ".", "$", "₹"}

FeeValues == UNION {[1..n -> FeeChars] : n \in 1..MaxFeeLen}

FeeLabels == {<<"A","n","n","u","a","l"," ","F","e","e",":"," ">>, <<"j","o","i","n","i","n","g"," ","f","e","e"," ">>}

FeeSections == {<<"G","o","l","d"," ","C","a","r","d","\n">> \o label \o value : label \in FeeLabels, value \in FeeValues}

\* _extract_cards_from_pdf_text(text) at its loop, for a text of one section
InitFee ==
  /\ env = "wide"
  /\ InitScraper
  /\ args = NoArgs
  /\ mpc = "none"

\* the text the PDF file is read as
ReadFeeText ==
  /\ pc = "idle"
  /\ result = "none"
  /\ \E section \in FeeSections :
       /\ text' = section
       /\ todo' = SplitSections(section)
  /\ pc' = "sections"
  /\ idx' = 1
  /\ UNCHANGED <<source, result, npages, ocr, doc, cards, calls, events, files, log,
                 save_raised, main_vars>>

NextFee ==
  \/ ReadFeeText
  \/ SectionStep
  \/ SectionsDone

SpecFee == InitFee /\ [][NextFee]_vars


----------------------------------------------------------------------------
(* One scraper object used for several calls of extract, with saves between them *)

\* how many calls of extract are followed
MaxCalls == 2

\* a further call of extract on the same object
ExtractAgain ==
  /\ mpc = "none"
  /\ result # "none"
  /\ calls < MaxCalls
  /\ \E src \in Sources : extract(src)
  /\ UNCHANGED main_vars

InitCalls ==
  /\ env = "short"
  /\ InitScraper
  /\ args = NoArgs
  /\ mpc = "none"

NextCalls ==
  \/ Extract
  \/ ExtractAgain
  \/ Steps
  \/ SaveToJson
  \/ SaveToCsv
  \/ SaveToExcel

SpecCalls == InitCalls /\ [][NextCalls]_vars
----------------------------------------------------------------------------
(* Properties *)

\* how many of the first k candidates gave a record: the place in self.cards of
\* the record of the k-th, when it gave one
Rank(k) == Cardinality({j \in 1..k : events[j].what = "appended"})

\* the candidates looked at so far that gave a record are the records of self.cards
CardsAreAppended == Len(cards) = Rank(Len(events))

\* C1: every record of the result set has a card_name that is a non-empty
\* string, whichever strategy (container, heading, table, fallback, PDF section)
\* gave it; a candidate without a name gives no record.
C1_EveryCardNamed ==
  /\ \A i \in 1..Len(cards) : Truthy(cards[i], K_card_name)
  /\ \A k \in 1..Len(events) : events[k].what = "no_name" => Rank(k) = Rank(k - 1)

\* a table of the page has a row that gave no record
SomeRowSkipped ==
  \E i \in 1..Len(doc) :
    /\ doc[i].tag = "table"
    /\ Len(TableRows(doc, i)) > Len(TableCards(doc, i))

\* C1's case: a call returned records from a page with a container without a
\* name and a table row without a name.
C1_Witness ==
  /\ result = "returned"
  /\ IsUrl(source)
  /\ cards # <<>>
  /\ \E k \in 1..Len(events) : events[k].what = "no_name"
  /\ SomeRowSkipped

\* C2: on the HTML path the result set never holds two records that are equal in
\* every field, during the call and after it.
C2_NoDuplicateCards ==
  IsUrl(source) => \A i, j \in 1..Len(cards) : i < j => cards[i] # cards[j]

\* C2's case: the table strategy found a record the container strategy had
\* already appended, and the call returned.
C2_Witness ==
  /\ result = "returned"
  /\ IsUrl(source)
  /\ \E i, j \in 1..Len(events) :
       /\ i < j
       /\ events[i].by = "container" /\ events[i].what = "appended"
       /\ events[j].by = "table" /\ events[j].what = "duplicate"

\* C3: on the PDF path two identical sections about a card give two identical
\* records, in the order of the sections.
C3_TwinSectionsTwinCards ==
  (result = "returned" /\ IsPdf(source)) =>
    /\ CardsAreAppended
    /\ \A i, j \in 1..Len(todo) :
         (i < j /\ todo[i] = todo[j] /\ IsCardSection(todo[i])) =>
           /\ events[i].what = "appended"
           /\ events[j].what = "appended"
           /\ Rank(i) < Rank(j)
           /\ cards[Rank(i)] = cards[Rank(j)]

\* C3's case: the text of a PDF that was read has two identical sections about a
\* card.
C3_Witness ==
  /\ result = "returned"
  /\ IsPdf(source)
  /\ \E i, j \in 1..Len(todo) : i < j /\ todo[i] = todo[j] /\ IsCardSection(todo[i])

\* the phrases C4 names
C4_Phrases ==
  {<<"c","r","e","d","i","t"," ","c","a","r","d">>, <<"p","l","a","t","i","n","u","m"," ","c","a","r","d">>, <<"g","o","l","d"," ","c","a","r","d">>, <<"r","e","w","a","r","d","s"," ","c","a","r","d">>, <<"b","u","z","z"," ","c","a","r","d">>,
   <<"t","r","a","v","e","l"," ","c","a","r","d">>}

\* C4: a block of PDF text with none of the six phrases in it, whatever the case
\* of its letters, gives no record.
C4_NoCardFromOtherBlocks ==
  (IsPdf(source) /\ pc \in {"sections", "idle"}) =>
    /\ CardsAreAppended
    /\ \A k \in 1..Len(events) :
         (\A phrase \in C4_Phrases : ~Contains(Lower(todo[events[k].at]), phrase))
           => events[k].what # "appended"

\* C4's case: a block with none of the phrases, which has a card name in it, was
\* passed over, and other blocks gave records.
C4_Witness ==
  /\ result = "returned"
  /\ IsPdf(source)
  /\ cards # <<>>
  /\ \E k \in 1..Len(events) :
       /\ events[k].what = "not_card"
       /\ Truthy(PdfCard(todo[k]), K_card_name)

\* C5 as stated: the block "XYZ Platinum Credit Card\nABC Bank\nAnnual Fee: 500\n
\* No joining fee, waived" gives one record with card_name "XYZ Platinum Credit
\* Card", issuing_bank "ABC Bank", annual_fee "$500" and joining_fee "$0".
C5_PlatinumScenario ==
  (IsPdf(source) /\ pc \in {"sections", "idle"}) =>
    \A k \in 1..Len(events) :
      todo[events[k].at] = PlatinumBlock =>
        /\ events[k].what = "appended"
        /\ LET card == cards[Rank(k)]
           IN /\ card[K_card_name] = <<"X","Y","Z"," ","P","l","a","t","i","n","u","m"," ","C","r","e","d","i","t"," ","C","a","r","d">>
              /\ K_issuing_bank \in DOMAIN card
              /\ card[K_issuing_bank] = <<"A","B","C"," ","B","a","n","k">>
              /\ card[K_annual_fee] = <<"$","5","0","0">>
              /\ card[K_joining_fee] = <<"$","0">>

\* the fee C6 says is stored for a captured value
C6_Fee(value) ==
  IF value \in {<<"0">>, <<"$","0">>, <<"₹","0">>} THEN <<"$","0">>
  ELSE IF value = <<>> \/ value[1] \notin {"$", "₹"} THEN <<"$">> \o value
  ELSE value

\* the value a fee type's patterns capture in a section: group 1 of the first
\* pattern that matches, stripped
Captured(patterns, section) ==
  LET m == FirstMatch(patterns, Lower(section), 1)
  IN [ok |-> m.ok, value |-> IF m.ok THEN Strip(Group1(Lower(section), m)) ELSE <<>>]

\* C6: a captured fee value of "0", "$0" or "₹0" is stored as "$0"; another
\* value without a leading "$" or "₹" is stored with "$" before it; a value with
\* one is stored as it is.
C6_FeeNormalized ==
  \A k \in 1..Len(events) :
    events[k].what = "appended" =>
      LET section == todo[events[k].at]
          card == cards[Rank(k)]
          joining == Captured(JoiningFeePatterns, section)
          annual == Captured(AnnualFeePatterns, section)
      IN /\ joining.ok => card[K_joining_fee] = C6_Fee(joining.value)
         /\ annual.ok => card[K_annual_fee] = C6_Fee(annual.value)

\* C6's case: a captured value that is not zero and has no currency marker was
\* stored with "$" before it.
C6_Witness ==
  /\ result = "returned"
  /\ cards # <<>>
  /\ LET annual == Captured(AnnualFeePatterns, text)
     IN /\ annual.ok
        /\ annual.value \notin {<<"0">>, <<"$","0">>, <<"₹","0">>}
        /\ annual.value[1] \notin {"$", "₹"}
        /\ cards[1][K_annual_fee] = <<"$">> \o annual.value

\* the cells of a row, stripped
RowTexts(row) ==
  LET cells == FindAll(doc, row, {"td", "th"})
  IN [i \in 1..Len(cells) |-> Strip(TextOf(doc, cells[i]))]

\* C7 as stated: of a table whose first row has a "Card Name" and an "Annual Fee"
\* column, every later row with a non-empty card-name cell gives a record with
\* that cell's text as card_name and the text of its cell under "Annual Fee" as
\* annual_fee, and the table gives no more records than it has such rows.
C7_TableRowsMapped ==
  (result = "returned" /\ IsUrl(source)) =>
    \A t \in 1..Len(doc) :
      doc[t].tag = "table" /\ FindAll(doc, t, {"tr"}) # <<>> =>
        LET header == RowTexts(Head(FindAll(doc, t, {"tr"})))
            rows == TableRows(doc, t)
        IN \A a, b \in 1..Len(header) :
             header[a] = <<"C","a","r","d"," ","N","a","m","e">> /\ header[b] = <<"A","n","n","u","a","l"," ","F","e","e">> =>
               /\ \A r \in 1..Len(rows) :
                    LET cells == RowTexts(rows[r])
                    IN (a <= Len(cells) /\ b <= Len(cells) /\ cells[a] # <<>>) =>
                         \E i \in 1..Len(cards) :
                           /\ cards[i][K_card_name] = cells[a]
                           /\ K_annual_fee \in DOMAIN cards[i]
                           /\ cards[i][K_annual_fee] = cells[b]
               /\ Len(TableCards(doc, t)) <=
                    Cardinality({r \in 1..Len(rows) :
                                   /\ a <= Len(RowTexts(rows[r]))
                                   /\ RowTexts(rows[r])[a] # <<>>})

\* C8 as stated: once main's handler has logged an error, no output file of the
\* run exists.
C8_NoOutputWhenErrorLogged == "error: Error" \in log => files \cap Outputs = {}

\* C8, amended: when main ends through its handler because of an error raised
\* before the first save (validation, fetching, PDF parsing, OCR, extraction),
\* no output file has been written; an error raised by a save leaves the files
\* written before it.
C8_NoOutputWhenExtractFails ==
  (mpc = "failed" /\ ~save_raised) => files \cap Outputs = {}

\* C8's case: extraction raised after it had collected records, and main ended
\* through its handler.
C8_Witness ==
  /\ mpc = "failed"
  /\ "error: Error" \in log
  /\ result = "TypeError"
  /\ cards # <<>>

\* C9 as stated: no exception leaves extract because a field cannot be
\* extracted.
C9_FieldExtractionNeverRaises == result # "TypeError"

\* C10 as stated: with an empty result set no operation writes a file, save_to_json,
\* save_to_csv and save_to_excel included.
C10_NoFileForNoCards ==
  [][(pc = "idle" /\ pc' = "idle" /\ cards = <<>>) => files' = files]_vars


\* the five fields C11 names
C11_Fields == {K_rewards, K_cashback, K_offers, K_joining_fee, K_annual_fee}

\* a text: a tuple of characters
IsText(value) == DOMAIN value = 1..Len(value)

\* C11: every record of the PDF path has the five keys rewards, cashback, offers,
\* joining_fee and annual_fee, each with a text or None as its value.
C11_FiveFieldsPresent ==
  IsPdf(source) =>
    \A i \in 1..Len(cards) : \A key \in C11_Fields :
      /\ key \in DOMAIN cards[i]
      /\ cards[i][key] = None \/ IsText(cards[i][key])

\* C11's case: a PDF gave a record in which one of the five fields was extracted
\* and another was not.
C11_Witness ==
  /\ result = "returned"
  /\ IsPdf(source)
  /\ \E i \in 1..Len(cards) : \E found, missing \in C11_Fields :
       /\ found \in DOMAIN cards[i] /\ cards[i][found] # None
       /\ missing \in DOMAIN cards[i] /\ cards[i][missing] = None

\* C12: when the text read from the pages of the PDF has fewer than 100
\* characters, _ocr_pdf is called, and the sections gone through are those of
\* the text _ocr_pdf returned.
C12_OcrBelowThreshold ==
  [][/\ (pc = "read_pdf" /\ pc' # "idle" /\ Len(text') < 100) => pc' = "ocr"
     /\ (pc = "ocr" /\ pc' # "idle") =>
          /\ pc' = "sections"
          /\ ocr'
          /\ todo' = SplitSections(text')
          /\ idx' = 1
     /\ (pc = "sections" /\ ocr) => (ocr' /\ text' = text /\ todo' = todo)]_vars

\* C12's case: the pages of a PDF gave a text of fewer than 100 characters, and
\* the call returned records taken from the text of _ocr_pdf.
C12_Witness ==
  /\ result = "returned"
  /\ IsPdf(source)
  /\ npages > 0
  /\ ocr
  /\ cards # <<>>

\* the key C13 gives for a lower-cased header; a header with none of C13's words
\* in it that has "card" or "name" in it is the card's name
C13_Key(header) ==
  IF Contains(header, <<"b","a","n","k">>) \/ Contains(header, <<"i","s","s","u","e","r">>) THEN K_issuing_bank
  ELSE IF Contains(header, <<"j","o","i","n">>) THEN K_joining_fee
  ELSE IF Contains(header, <<"a","n","n","u","a","l">>) THEN K_annual_fee
  ELSE IF Contains(header, <<"r","e","w","a","r","d">>) THEN K_rewards
  ELSE IF Contains(header, <<"c","a","s","h">>) THEN K_cashback
  ELSE IF Contains(header, <<"o","f","f","e","r">>) \/ Contains(header, <<"b","e","n","e","f","i","t">>) THEN K_offers
  ELSE IF Contains(header, <<"c","a","r","d">>) \/ Contains(header, <<"n","a","m","e">>) THEN K_card_name
  ELSE header

\* the record C13 describes for a row: each cell under the key of its header, a
\* later cell replacing an earlier one of the same key
C13_Row(header, cells) ==
  LET n == IF Len(header) < Len(cells) THEN Len(header) ELSE Len(cells)
      last(key) == CHOOSE i \in 1..n :
                     /\ C13_Key(header[i]) = key
                     /\ \A j \in (i + 1)..n : C13_Key(header[j]) # key
  IN [key \in {C13_Key(header[i]) : i \in 1..n} |-> cells[last(key)]]

\* C13 as stated: of a table with a header row, every later row whose record has
\* a card name gives the record in which each cell is under the key of its
\* header: issuing_bank for a header with "bank" or "issuer" in it, joining_fee
\* for "join", annual_fee for "annual", rewards for "reward", cashback for
\* "cash", offers for "offer" or "benefit", the header itself otherwise.
C13_HeadersMapped ==
  (result = "returned" /\ IsUrl(source)) =>
    \A t \in 1..Len(doc) :
      doc[t].tag = "table" /\ FindAll(doc, t, {"tr"}) # <<>> =>
        LET first == RowTexts(Head(FindAll(doc, t, {"tr"})))
            header == [i \in 1..Len(first) |-> Lower(first[i])]
            rows == TableRows(doc, t)
        IN header # <<>> =>
             \A r \in 1..Len(rows) :
               LET card == C13_Row(header, RowTexts(rows[r]))
               IN Truthy(card, K_card_name) => InCards(card, cards)

\* a fee as C15 describes it: "$" or "₹", then characters with a digit among them
C15_Marked(fee) ==
  /\ Len(fee) >= 2
  /\ fee[1] \in {"$", "₹"}
  /\ \E i \in 2..Len(fee) : fee[i] \in Digits

\* C15 as stated: in every record of the PDF path a joining_fee or annual_fee
\* that is not None begins with "$" or "₹" and has a digit after it.
C15_FeesAreAmounts ==
  IsPdf(source) =>
    \A i \in 1..Len(cards) : \A key \in {K_joining_fee, K_annual_fee} :
      (key \in DOMAIN cards[i] /\ cards[i][key] # None) => C15_Marked(cards[i][key])

\* the records _extract_cards_from_pdf_text takes from the first n sections,
\* starting from none
RECURSIVE CardsOfSections(_, _)
CardsOfSections(sections, n) ==
  IF n = 0 THEN <<>>
  ELSE PdfSectionCards(CardsOfSections(sections, n - 1), sections[n])

\* C14: on one scraper object, whatever came before, each call of extract starts
\* with an empty result set, the records of the result set are those the call
\* appended from its own source, and the save operations leave the result set as
\* it is.
C14_CallsAreSeparate ==
  [][/\ calls' # calls => (calls' = calls + 1 /\ cards' = <<>>)
     /\ CardsAreAppended'
     /\ (result' = "returned" /\ IsPdf(source')) =>
          cards' = CardsOfSections(SplitSections(text'), Len(SplitSections(text')))
     /\ (calls' = calls /\ pc = "idle") => cards' = cards]_vars

\* C14's case: the first call gave records, which were saved as CSV, and a
\* later call on the same object returned an empty result set.
C14_Witness ==
  /\ calls >= 2
  /\ pc = "idle"
  /\ result = "returned"
  /\ cards = <<>>
  /\ "csv" \in files
====
